---- MODULE Spec2Model ----
(***************************************************************************)
(* gkmodel/model.py: OverallModel, StudyModel, solve_ls and result_to_df.  *)
(*                                                                         *)
(* Numbers are exact rationals <<numerator, denominator>> in lowest terms  *)
(* with a positive denominator; results are modelled without rounding.     *)
(* The inputs drawn below (small integers, standard errors 1 and 2) give   *)
(* normal matrices that floating point holds exactly, so np.linalg.solve   *)
(* meets a zero pivot exactly when the matrix is singular.                 *)
(***************************************************************************)
EXTENDS Integers, Sequences, FiniteSets

VARIABLES
    kind,        \* which class the instance is: "overall" or "study"
    cov_models,  \* self.cov_models: the covariate name of each LinearCovModel
    heap,        \* the MRData objects, by reference: each a sequence of rows
    data,        \* self.data: None or a reference into heap
    mat,         \* self.mat: None (<<>>) or <<matrix>>
    soln,        \* self.soln: None (<<>>) or <<vector>> / <<table>>
    fit_status,  \* how the most recent fit_model call ended ("never" at first)
    last,        \* the most recent call: its arguments, how it ended, its result
    ls_in,       \* arguments of a direct solve_ls call
    ls_out       \* what that call returned or raised

vars == <<kind, cov_models, heap, data, mat, soln, fit_status, last, ls_in, ls_out>>

\* ------------------------------------------------------------ bounds
\* rows of the largest observation set
MaxRows == 4
\* rows of the largest matrix handed to solve_ls directly
MaxN == 3

\* ------------------------------------------------------------ numbers
None == "None"
NoneVal == <<>>
Some(x) == <<x>>

Abs(n) == IF n < 0 THEN -n ELSE n

RECURSIVE GCD(_, _)
GCD(a, b) == IF b = 0 THEN a ELSE GCD(b, a % b)

Rat(n, d) ==
    LET s == IF d < 0 THEN -1 ELSE 1
        g == GCD(Abs(n), Abs(d))
    IN  <<(s * n) \div g, (s * d) \div g>>

R(n) == <<n, 1>>
Zero == <<0, 1>>
One == <<1, 1>>
NaN == <<0, 0>>

RAdd(a, b) == Rat(a[1] * b[2] + b[1] * a[2], a[2] * b[2])
RSub(a, b) == Rat(a[1] * b[2] - b[1] * a[2], a[2] * b[2])
RMul(a, b) == Rat(a[1] * b[1], a[2] * b[2])
RDiv(a, b) == Rat(a[1] * b[2], a[2] * b[1])
RNeg(a) == <<-a[1], a[2]>>
RLe(a, b) == a[1] * b[2] <= b[1] * a[2]
RLt(a, b) == a[1] * b[2] < b[1] * a[2]
RMax(a, b) == IF RLe(a, b) THEN b ELSE a
RMin(a, b) == IF RLe(a, b) THEN a ELSE b

RECURSIVE RSum(_)
RSum(s) == IF s = <<>> THEN Zero ELSE RAdd(s[1], RSum(Tail(s)))

\* ------------------------------------------------------ linear algebra
NRows(M) == Len(M)
NCols(M) == Len(M[1])
Column(M, j) == [i \in 1..Len(M) |-> M[i][j]]

\* a.dot(b) for a matrix and a vector
MatVec(M, x) == [i \in 1..Len(M) |-> RSum([j \in 1..Len(x) |-> RMul(M[i][j], x[j])])]

\* a.dot(b) for two matrices
MatMat(A, B) ==
    [i \in 1..Len(A) |->
        [l \in 1..NCols(B) |-> RSum([j \in 1..Len(B) |-> RMul(A[i][j], B[j][l])])]]

DropAt(s, j) == [i \in 1..(Len(s) - 1) |-> IF i < j THEN s[i] ELSE s[i + 1]]
Minor(A, j) == [i \in 1..(Len(A) - 1) |-> DropAt(A[i + 1], j)]

RECURSIVE Det(_)
Det(A) ==
    IF Len(A) = 1 THEN A[1][1]
    ELSE RSum([j \in 1..Len(A) |->
                LET t == RMul(A[1][j], Det(Minor(A, j)))
                IN  IF j % 2 = 1 THEN t ELSE RNeg(t)])

ReplaceCol(A, j, b) == [i \in 1..Len(A) |-> [l \in 1..Len(A) |-> IF l = j THEN b[i] ELSE A[i][l]]]

\* np.linalg.solve(a, b): the solution of a x = b, or LinAlgError when a is
\* singular
LinalgSolve(A, b) ==
    LET detA == Det(A)
    IN  IF detA = Zero
        THEN [status |-> "LinAlgError", val |-> <<>>]
        ELSE [status |-> "ok",
              val |-> [j \in 1..Len(A) |-> RDiv(Det(ReplaceCol(A, j, b)), detA)]]

\* v = obs_se**2
Variance_se(obs_se) == obs_se
Variance(obs_se) == [i \in 1..Len(obs_se) |-> RMul(obs_se[i], obs_se[i])]

\* mat.T/v: row j of mat.T divided element-wise by v
ScaledTranspose(M, v) ==
    [j \in 1..NCols(M) |-> [i \in 1..NRows(M) |-> RDiv(M[i][j], v[i])]]

solve_ls(M, obs, obs_se) ==
    LET v == Variance(obs_se)
        MTv == ScaledTranspose(M, v)
    IN  LinalgSolve(MatMat(MTv, M), MatVec(MTv, obs))

\* ------------------------------------------------ direct solve_ls calls
LsMatrices ==
    UNION {[1..n -> [1..k -> {R(0), R(1)}]] : n \in 1..MaxN, k \in 1..2}
LsVectors(n) == [1..n -> {R(0), R(1)}]
LsErrors(n) == [1..n -> {R(1), R(2)}]
NoCall == [mat |-> <<>>, obs |-> <<>>, obs_se |-> <<>>]
NoResult == [status |-> "none", val |-> <<>>]

\* solve_ls(mat, obs, obs_se) called on its own; v and mat.T/v are new arrays,
\* the arguments are left as they were
SolveCall ==
    /\ ls_out = NoResult
    /\ ls_in # NoCall
    /\ ls_out' = solve_ls(ls_in.mat, ls_in.obs, ls_in.obs_se)
    /\ UNCHANGED <<kind, cov_models, heap, data, mat, soln, fit_status, last, ls_in>>

\* ------------------------------------------------------- observation sets
\* MRData: rows of (data_id, study_id, obs, obs_se, covariate x); the covariate
\* "intercept" is 1 on every row
StudyIds == <<"A", "B", "C">>
Refs == {"d1", "d2"}

PairIndex(i) == ((i - 1) \div 2) % Len(StudyIds)

MkRow(n, i, sp, vp, ip) ==
    [id    |-> IF ip = "asc" THEN i ELSE n + 1 - i,
     study |-> IF sp = "fwd" THEN StudyIds[PairIndex(i) + 1]
                             ELSE StudyIds[Len(StudyIds) - PairIndex(i)],
     obs   |-> IF vp = "unit" THEN i ELSE i * i,
     se    |-> IF vp = "unit" THEN 1 ELSE 1 + (i % 2),
     x     |-> i % 2]

MkData(n, sp, vp, ip) == [i \in 1..n |-> MkRow(n, i, sp, vp, ip)]

\* the observation sets a model is given: rows of two shapes of values, in
\* ascending or descending data_id order, the groups in pairs of rows
TrainSets ==
    {MkData(n, "fwd", vp, ip) :
        n \in (MaxRows - 1)..MaxRows, vp \in {"unit", "sq"}, ip \in {"asc", "desc"}}
BatchSets == {MkData(MaxRows - 1, "rev", "sq", ip) : ip \in {"asc", "desc"}}

Obs(d) == [i \in 1..Len(d) |-> R(d[i].obs)]
ObsSe(d) == [i \in 1..Len(d) |-> R(d[i].se)]
StudySet(d) == {d[i].study : i \in 1..Len(d)}

\* data.studies: np.unique(study_id), the distinct groups in sorted order
Studies(d) == SelectSeq(StudyIds, LAMBDA g : g \in StudySet(d))

Cov(row, name) == IF name = "intercept" THEN One ELSE R(row.x)

\* data.get_covs(names)
GetCovs(d, names) == [i \in 1..Len(d) |-> [j \in 1..Len(names) |-> Cov(d[i], names[j])]]

\* data._sort_by_data_id(): the rows reordered by ascending data_id, in place
SortByDataId(d) ==
    [i \in 1..Len(d) |->
        CHOOSE r \in {d[j] : j \in 1..Len(d)} :
            Cardinality({j \in 1..Len(d) : d[j].id <= r.id}) = i]

\* ------------------------------------------------------- design matrices
CovConfigs == {<<"intercept">>, <<"intercept", "x">>}

\* cov_model.create_design_mat(data)[0]: the column block of one LinearCovModel
CovBlock(d, name) == [i \in 1..Len(d) |-> <<Cov(d[i], name)>>]

\* np.hstack(blocks): the blocks side by side, in list order
HStack(blocks, n) ==
    [i \in 1..n |-> [j \in 1..Len(blocks) |-> blocks[j][i][1]]]

\* OverallModel.create_design_mat(data)
OverallDesignMat(cms, d) == HStack([j \in 1..Len(cms) |-> CovBlock(d, cms[j])], Len(d))

\* StudyModel._get_cov_names(): the covs of every cov_model, in order
GetCovNames(cms) == [j \in 1..Len(cms) |-> cms[j]]

\* StudyModel.create_design_mat(data)
StudyDesignMat(cms, d) == GetCovs(d, GetCovNames(cms))

DesignMat(k, cms, d) ==
    IF k = "overall" THEN OverallDesignMat(cms, d) ELSE StudyDesignMat(cms, d)

\* ------------------------------------------------------------- the calls
Call(op, arg, sq, status, out, rows, coef, resid) ==
    [op |-> op, arg |-> arg, sq |-> sq, status |-> status,
     out |-> out, rows |-> rows, coef |-> coef, resid |-> resid]

Plain(op, arg, status) == Call(op, arg, NoneVal, status, <<>>, <<>>, <<>>, <<>>)

\* attach_data: "if data is not None"
AttachHasData_never(arg) == FALSE
AttachHasData(arg) == arg # None

OverallAttach ==
    /\ kind = "overall"
    /\ \E arg \in Refs \cup {None} :
        /\ IF AttachHasData(arg)
           THEN /\ data' = arg
                /\ mat' = Some(OverallDesignMat(cov_models, heap[arg]))
           ELSE UNCHANGED <<data, mat>>
        /\ last' = Plain("attach_data", arg, "ok")
    /\ UNCHANGED <<kind, cov_models, heap, soln, fit_status, ls_in, ls_out>>

StudyAttach ==
    /\ kind = "study"
    /\ \E arg \in Refs \cup {None} :
        /\ IF AttachHasData(arg)
           THEN /\ data' = arg
                /\ mat' = Some(StudyDesignMat(cov_models, heap[arg]))
           ELSE UNCHANGED <<data, mat>>
        /\ last' = Plain("attach_data", arg, "ok")
    /\ UNCHANGED <<kind, cov_models, heap, soln, fit_status, ls_in, ls_out>>

\* fit_model: "if self.data is None: raise ValueError"
FitMissingData_never(d) == FALSE
FitMissingData(d) == d = None

\* OverallModel.fit_model; without the guard self.data.obs fails on None
OverallFit ==
    /\ kind = "overall"
    /\ IF FitMissingData(data)
       THEN /\ last' = Plain("fit_model", None, "ValueError")
            /\ fit_status' = "ValueError"
            /\ UNCHANGED soln
       ELSE IF data = None
       THEN /\ last' = Plain("fit_model", None, "AttributeError")
            /\ fit_status' = "AttributeError"
            /\ UNCHANGED soln
       ELSE LET r == solve_ls(mat[1], Obs(heap[data]), ObsSe(heap[data]))
            IN  /\ last' = Plain("fit_model", None, r.status)
                /\ fit_status' = r.status
                /\ soln' = IF r.status = "ok" THEN Some(r.val) ELSE soln
    /\ UNCHANGED <<kind, cov_models, heap, data, mat, ls_in, ls_out>>

\* the coefficient table: a dict, as its (study_id, vector) items in insertion order
Keys(table) == {table[t][1] : t \in 1..Len(table)}
TableGet(table, g) == table[CHOOSE t \in 1..Len(table) : table[t][1] = g][2]
TableSet(table, g, vec) ==
    IF g \in Keys(table)
    THEN [t \in 1..Len(table) |-> IF table[t][1] = g THEN <<g, vec>> ELSE table[t]]
    ELSE Append(table, <<g, vec>>)

\* index = self.data.study_id == study_id: the positions of the group's rows
GroupIndex_all(d, g) == [i \in 1..Len(d) |-> i]
GroupIndex(d, g) == SelectSeq([i \in 1..Len(d) |-> i], LAMBDA i : d[i].study = g)

\* a[index]
Take(a, index) == [t \in 1..Len(index) |-> a[index[t]]]

\* the loop of StudyModel.fit_model over self.data.studies, from self.soln = {}:
\* a group whose solve raises ends the loop with the table as filled so far
RECURSIVE FitGroups(_, _, _, _)
FitGroups(studies, table, M, d) ==
    IF studies = <<>> THEN [status |-> "ok", val |-> table]
    ELSE LET g == Head(studies)
             index == GroupIndex(d, g)
             r == solve_ls(Take(M, index), Take(Obs(d), index), Take(ObsSe(d), index))
         IN  IF r.status # "ok" THEN [status |-> r.status, val |-> table]
             ELSE FitGroups(Tail(studies), TableSet(table, g, r.val), M, d)

StudyFit ==
    /\ kind = "study"
    /\ IF FitMissingData(data)
       THEN /\ last' = Plain("fit_model", None, "ValueError")
            /\ fit_status' = "ValueError"
            /\ UNCHANGED soln
       ELSE IF data = None
       THEN /\ last' = Plain("fit_model", None, "AttributeError")
            /\ fit_status' = "AttributeError"
            /\ soln' = Some(<<>>)
       ELSE LET r == FitGroups(Studies(heap[data]), <<>>, mat[1], heap[data])
            IN  /\ last' = Plain("fit_model", None, r.status)
                /\ fit_status' = r.status
                /\ soln' = Some(r.val)
    /\ UNCHANGED <<kind, cov_models, heap, data, mat, ls_in, ls_out>>

\* OverallModel.predict(data): create_design_mat(data) on missing data and
\* mat.dot(None) on a model never fitted raise
OverallPredictOp(h, arg) ==
    LET d == IF arg = None THEN data ELSE arg
    IN  IF d = None THEN [status |-> "AttributeError", out |-> <<>>, rows |-> <<>>, coef |-> <<>>]
        ELSE IF soln = NoneVal
        THEN [status |-> "TypeError", out |-> <<>>, rows |-> <<>>, coef |-> <<>>]
        ELSE [status |-> "ok", out |-> MatVec(OverallDesignMat(cov_models, h[d]), soln[1]),
              rows |-> <<>>, coef |-> <<>>]

\* np.mean(list(self.soln.values()), axis=0)
MeanSoln(table) ==
    [j \in 1..Len(table[1][2]) |->
        RDiv(RSum([t \in 1..Len(table) |-> table[t][2][j]]), R(Len(table)))]

\* "study_id in self.data.study_id": membership in the attached data's groups
KnownGroup(table, train, g) == g \in train

\* the per-row coefficient array of StudyModel.predict, a new array
RowSoln(table, train, D) ==
    [i \in 1..Len(D) |->
        IF KnownGroup(table, train, D[i].study)
        THEN TableGet(table, D[i].study) ELSE MeanSoln(table)]

\* a row of a known group whose key the table lacks: self.soln[study_id] raises
RowKeyError(table, train, D) ==
    \E i \in 1..Len(D) :
        KnownGroup(table, train, D[i].study) /\ D[i].study \notin Keys(table)

\* a sorted copy of a
SortRat(a) ==
    [i \in 1..Len(a) |->
        CHOOSE v \in {a[j] : j \in 1..Len(a)} :
            /\ Cardinality({j \in 1..Len(a) : RLt(a[j], v)}) < i
            /\ i <= Cardinality({j \in 1..Len(a) : RLe(a[j], v)})]

\* np.quantile(a, q): linear interpolation between the order statistics
\* around position q*(n-1)
Quantile(a, q) ==
    LET n == Len(a)
        sorted == SortRat(a)
        num == q[1] * (n - 1)
        lo == num \div q[2]
        frac == Rat(num % q[2], q[2])
    IN  IF lo + 1 >= n THEN sorted[n]
        ELSE RAdd(sorted[lo + 1], RMul(frac, RSub(sorted[lo + 2], sorted[lo + 1])))

Half == <<1, 2>>

\* np.maximum(c, v) if quantile >= 0.5 else np.minimum(c, v)
Clamp_swapped(c, v, q) == IF RLe(Half, q) THEN RMin(c, v) ELSE RMax(c, v)
Clamp(c, v, q) == IF RLe(Half, q) THEN RMax(c, v) ELSE RMin(c, v)

\* self.cov_names.index(name)
IndexOf(names, name) == CHOOSE j \in 1..Len(names) : names[j] = name /\ \A l \in 1..(j - 1) : names[l] # name
InNames(names, name) == \E j \in 1..Len(names) : names[j] = name

ClampColumn(coef, i, q) ==
    LET v == Quantile(Column(coef, i), q)
    IN  [r \in 1..Len(coef) |->
            [j \in 1..Len(coef[r]) |-> IF j = i THEN Clamp(coef[r][j], v, q) ELSE coef[r][j]]]

\* the loop over slope_quantile.items()
RECURSIVE ApplyQuantiles(_, _, _)
ApplyQuantiles(coef, items, names) ==
    IF items = <<>> THEN coef
    ELSE LET name == items[1][1]
             q == items[1][2]
             next == IF InNames(names, name)
                     THEN ClampColumn(coef, IndexOf(names, name), q) ELSE coef
         IN  ApplyQuantiles(next, Tail(items), names)

\* np.sum(mat*soln, axis=1)
RowDot(M, coef) ==
    [i \in 1..Len(M) |-> RSum([j \in 1..Len(M[i]) |-> RMul(M[i][j], coef[i][j])])]

Raised(status) == [status |-> status, out |-> <<>>, rows |-> <<>>, coef |-> <<>>]

\* StudyModel.predict up to the per-row coefficient array: the design matrix
\* of the data predicted on, the mean vector, each row's vector.  With an
\* empty table the mean is nan and the per-row array is one-dimensional
StudyRows(h, arg) ==
    LET d == IF arg = None THEN data ELSE arg
    IN  IF soln = NoneVal \/ d = None \/ data = None THEN Raised("AttributeError")
        ELSE LET table == soln[1]
                 D == h[d]
                 train == StudySet(h[data])
             IN  IF RowKeyError(table, train, D) THEN Raised("KeyError")
                 ELSE IF table = <<>>
                 THEN [status |-> "nan", out |-> <<>>,
                       rows |-> [i \in 1..Len(D) |-> NaN], coef |-> <<>>]
                 ELSE [status |-> "ok", out |-> <<>>,
                       rows |-> RowSoln(table, train, D), coef |-> <<>>]

\* the rest of StudyModel.predict: the clamp of the columns slope_quantile
\* names, then the row-wise product.  Indexing a column of a one-dimensional
\* array raises, and mat*soln broadcasts it only for matching shapes
StudyPredictOp(h, arg, sq, pre) ==
    LET d == IF arg = None THEN data ELSE arg
        names == GetCovNames(cov_models)
    IN  IF pre.status = "nan"
        THEN IF sq # NoneVal /\ \E t \in 1..Len(sq[1]) : InNames(names, sq[1][t][1])
             THEN Raised("IndexError")
             ELSE IF Len(h[d]) = Len(names) \/ Len(h[d]) = 1 \/ Len(names) = 1
             THEN [status |-> "ok", out |-> pre.rows, rows |-> pre.rows, coef |-> pre.rows]
             ELSE Raised("ValueError")
        ELSE IF pre.status # "ok" THEN pre
        ELSE LET coef == IF sq = NoneVal THEN pre.rows
                         ELSE ApplyQuantiles(pre.rows, sq[1], names)
             IN  [status |-> "ok", out |-> RowDot(StudyDesignMat(cov_models, h[d]), coef),
                  rows |-> pre.rows, coef |-> coef]

\* self.soln after predict: the clamp works on the new per-row array
SolnAfterPredict_inplace(s, rows, coef, D) ==
    IF s = NoneVal \/ coef = <<>> THEN s
    ELSE Some([t \in 1..Len(s[1]) |->
            IF \E i \in 1..Len(D) : D[i].study = s[1][t][1] /\ rows[i] = s[1][t][2]
            THEN <<s[1][t][1],
                   coef[CHOOSE i \in 1..Len(D) : D[i].study = s[1][t][1] /\ rows[i] = s[1][t][2]]>>
            ELSE s[1][t]])
SolnAfterPredict(s, rows, coef, D) == s

\* slope_quantile: None, or a dict as its items; "z" names no covariate
SlopeQuantiles ==
    {NoneVal, Some(<<<<"x", <<1, 10>>>>>>), Some(<<<<"x", Half>>>>),
     Some(<<<<"z", <<1, 10>>>>, <<"x", <<9, 10>>>>>>)}

OverallPredict ==
    /\ kind = "overall"
    /\ \E arg \in Refs \cup {None} :
        LET p == OverallPredictOp(heap, arg)
        IN  last' = Call("predict", arg, NoneVal, p.status, p.out, p.rows, p.coef, <<>>)
    /\ UNCHANGED <<kind, cov_models, heap, data, mat, soln, fit_status, ls_in, ls_out>>

StudyPredict ==
    /\ kind = "study"
    /\ \E arg \in Refs \cup {None} :
        LET pre == StudyRows(heap, arg)
            d == IF arg = None THEN data ELSE arg
        IN  \E sq \in IF arg = None THEN {NoneVal} ELSE SlopeQuantiles :
                LET p == StudyPredictOp(heap, arg, sq, pre)
                IN  /\ last' = Call("predict", arg, sq, p.status, p.out, p.rows, p.coef, <<>>)
                    /\ soln' = IF p.status = "ok" /\ soln[1] # <<>>
                               THEN SolnAfterPredict(soln, p.rows, p.coef, heap[d]) ELSE soln
    /\ UNCHANGED <<kind, cov_models, heap, data, mat, fit_status, ls_in, ls_out>>

\* resi = data.obs - pred
Residual(obs, pred) ==
    [i \in 1..Len(obs) |-> IF pred[i] = NaN THEN NaN ELSE RSub(obs[i], pred[i])]

\* result_to_df(model, data): the data is sorted in place before the model
\* predicts on it; a predict that raises leaves the data sorted
ResultToDf ==
    \E arg \in Refs :
        LET h == [heap EXCEPT ![arg] = SortByDataId(@)]
            p == IF kind = "overall" THEN OverallPredictOp(h, arg)
                 ELSE StudyPredictOp(h, arg, NoneVal, StudyRows(h, arg))
        IN  /\ heap' = h
            /\ last' = Call("result_to_df", arg, NoneVal, p.status, p.out, p.rows, p.coef,
                            IF p.status = "ok" THEN Residual(Obs(h[arg]), p.out) ELSE <<>>)
            /\ UNCHANGED <<kind, cov_models, data, mat, soln, fit_status, ls_in, ls_out>>

\* --------------------------------------------------------- specifications
\* a model constructed without data; d1 is any of the observation sets whose
\* groups come in ascending pairs, d2 one whose groups come in descending pairs
Init ==
    /\ kind \in {"overall", "study"}
    /\ cov_models \in CovConfigs
    /\ heap \in {[r \in Refs |-> IF r = "d1" THEN a ELSE b] : a \in TrainSets, b \in BatchSets}
    /\ data = None
    /\ mat = NoneVal
    /\ soln = NoneVal
    /\ fit_status = "never"
    /\ last = Plain("__init__", None, "ok")
    /\ ls_in = NoCall
    /\ ls_out = NoResult

Next ==
    \/ OverallAttach
    \/ StudyAttach
    \/ OverallFit
    \/ StudyFit
    \/ OverallPredict
    \/ StudyPredict
    \/ ResultToDf

Spec == Init /\ [][Next]_vars

\* solve_ls on its own, over every small matrix, outcome and standard error
InitSolve ==
    /\ kind = "overall"
    /\ cov_models = <<"intercept">>
    /\ heap = [r \in Refs |-> MkData(MaxRows, "fwd", "unit", "asc")]
    /\ data = None
    /\ mat = NoneVal
    /\ soln = NoneVal
    /\ fit_status = "never"
    /\ last = Plain("__init__", None, "ok")
    /\ \E M \in LsMatrices :
            \E y \in LsVectors(Len(M)), s \in LsErrors(Len(M)) :
                ls_in = [mat |-> M, obs |-> y, obs_se |-> s]
    /\ ls_out = NoResult

NextSolve == SolveCall

SpecSolve == InitSolve /\ [][NextSolve]_vars

\* ---------------------------------------------------------------- claims
\* the normal equations written out entry by entry, with weights 1/s_i^2
RefNormal(M, s) ==
    [j \in 1..NCols(M) |-> [l \in 1..NCols(M) |->
        RSum([i \in 1..Len(M) |-> RDiv(RMul(M[i][j], M[i][l]), RMul(s[i], s[i]))])]]
RefRhs(M, y, s) ==
    [j \in 1..NCols(M) |->
        RSum([i \in 1..Len(M) |-> RDiv(RMul(M[i][j], y[i]), RMul(s[i], s[i]))])]

\* the columns of M are linearly dependent: M^t W M is singular
Dependent(M) ==
    \E c \in [1..NCols(M) -> {R(-1), Zero, One}] :
        /\ \E j \in 1..NCols(M) : c[j] # Zero
        /\ MatVec(M, c) = [i \in 1..Len(M) |-> Zero]

\* every system fit_model solves on the stored matrix is non-singular
Solvable ==
    IF kind = "overall" THEN ~Dependent(mat[1])
    ELSE \A g \in StudySet(heap[data]) : ~Dependent(Take(mat[1], GroupIndex(heap[data], g)))

\* C1: fit_model on a model without data raises ValueError and nothing else,
\* leaves data, mat and soln as they were, and after it attach_data(data)
\* followed by fit_model fits as on any model with data: it does not raise the
\* usage error, and it succeeds whenever the systems to solve are non-singular
C1_FitWithoutData ==
    [][last'.op = "fit_model" =>
        IF data = None
        THEN last'.status = "ValueError" /\ UNCHANGED <<data, mat, soln, heap>>
        ELSE /\ last'.status \in {"ok", "LinAlgError"}
             /\ (fit_status = "ValueError" /\ last.op = "attach_data")
                    => /\ (last'.status = "ok") = Solvable
                       /\ last'.status = "ok" => soln' # NoneVal
                       /\ UNCHANGED <<data, mat, heap>>]_vars

C1_Witness ==
    /\ last.op = "fit_model"
    /\ last.status = "ValueError"
    /\ data = None
    /\ soln = NoneVal

\* C2: a vector solve_ls returns satisfies the normal equations
\* (M^t W M) b = M^t W y with W = diag(1/s_i^2), and solve_ls raises exactly
\* when M^t W M is singular
C2_NormalEquations ==
    /\ ls_out.status \in {"none", "ok", "LinAlgError"}
    /\ ls_out.status = "ok" =>
        /\ ~Dependent(ls_in.mat)
        /\ MatVec(RefNormal(ls_in.mat, ls_in.obs_se), ls_out.val)
              = RefRhs(ls_in.mat, ls_in.obs, ls_in.obs_se)
    /\ ls_out.status = "LinAlgError" => Dependent(ls_in.mat)

C2_Witness ==
    /\ ls_out.status = "ok"
    /\ Len(ls_in.mat) = 3
    /\ NCols(ls_in.mat) = 2
    /\ ls_in.obs_se[1] # ls_in.obs_se[2]
    /\ ls_out.val[2][2] # 1

\* C3: on a fitted StudyModel predict does not fail, a row whose group is no
\* key of the table gets the mean of the table's vectors and a row whose
\* group is a key gets that group's vector
C3_Fallback ==
    (kind = "study" /\ fit_status = "ok" /\ last.op = "predict") =>
        /\ last.status = "ok"
        /\ LET D == heap[IF last.arg = None THEN data ELSE last.arg]
           IN  \A i \in 1..Len(D) :
                   last.rows[i] = IF D[i].study \in Keys(soln[1])
                                  THEN TableGet(soln[1], D[i].study)
                                  ELSE MeanSoln(soln[1])

\* C4: after a StudyModel.fit_model that failed with the solver's error the
\* table does not hold the vectors of just the groups solved before the
\* failing one
C4_NoPartialResults ==
    (kind = "study" /\ last.op = "fit_model" /\ last.status = "LinAlgError") =>
        ~(/\ soln # NoneVal
          /\ Keys(soln[1]) # {}
          /\ Keys(soln[1]) # StudySet(heap[data])
          /\ Keys(soln[1]) \subseteq StudySet(heap[data]))

\* the quantile slope_quantile gives for column j, if it names that column
ItemsFor(sq, name) == {t \in 1..Len(sq[1]) : sq[1][t][1] = name}

\* C5: with v the q-quantile of the per-row values of a column that
\* slope_quantile names, every row's value used is >= v when q >= 0.5 and
\* <= v when q < 0.5, a row on the permitted side of v keeps its value, and a
\* column slope_quantile does not name is used as assigned
C5_QuantileClamp ==
    (kind = "study" /\ last.op = "predict" /\ last.status = "ok"
        /\ last.sq # NoneVal /\ soln[1] # <<>>) =>
        LET names == GetCovNames(cov_models)
        IN  \A j \in 1..Len(names) :
                IF ItemsFor(last.sq, names[j]) = {}
                THEN Column(last.coef, j) = Column(last.rows, j)
                ELSE LET q == last.sq[1][CHOOSE t \in ItemsFor(last.sq, names[j]) : TRUE][2]
                         v == Quantile(Column(last.rows, j), q)
                     IN  \A r \in 1..Len(last.rows) :
                            IF RLe(Half, q)
                            THEN /\ RLe(v, last.coef[r][j])
                                 /\ RLe(v, last.rows[r][j]) => last.coef[r][j] = last.rows[r][j]
                            ELSE /\ RLe(last.coef[r][j], v)
                                 /\ RLe(last.rows[r][j], v) => last.coef[r][j] = last.rows[r][j]

C5_Witness ==
    /\ kind = "study"
    /\ last.op = "predict"
    /\ last.status = "ok"
    /\ last.sq = Some(<<<<"z", <<1, 10>>>>, <<"x", <<9, 10>>>>>>)
    /\ cov_models = <<"intercept", "x">>
    /\ \E r \in 1..Len(last.rows) : last.coef[r][2] # last.rows[r][2]
    /\ \E r \in 1..Len(last.rows) : last.coef[r][2] = last.rows[r][2]
    /\ \E r1, r2 \in 1..Len(last.rows) : last.rows[r1][1] # last.rows[r2][1]

WeightedMean(d, index) ==
    RDiv(RSum([t \in 1..Len(index) |->
                  RDiv(R(d[index[t]].obs), R(d[index[t]].se * d[index[t]].se))]),
         RSum([t \in 1..Len(index) |-> RDiv(One, R(d[index[t]].se * d[index[t]].se))]))

Scenario == MkData(4, "fwd", "unit", "asc")
ScenarioTable == <<<<"A", <<(<<3, 2>>)>>>>, <<"B", <<(<<7, 2>>)>>>>>>

\* C7: with the single intercept column a fit gives the weighted mean of the
\* outcomes of the rows fitted; on groups A, A, B, B with outcomes 1, 2, 3, 4
\* and standard errors 1 the overall fit gives 2.5, the study fit A -> 1.5 and
\* B -> 3.5, and predict gives 2.5 for a row of the unseen group C
C7_InterceptMeans ==
    cov_models = <<"intercept">> =>
        /\ (last.op = "fit_model" /\ last.status = "ok" /\ kind = "overall") =>
            /\ soln = Some(<<WeightedMean(heap[data], [i \in 1..Len(heap[data]) |-> i])>>)
            /\ heap[data] = Scenario => soln = Some(<<(<<5, 2>>)>>)
        /\ (last.op = "fit_model" /\ last.status = "ok" /\ kind = "study") =>
            /\ Keys(soln[1]) = StudySet(heap[data])
            /\ \A g \in StudySet(heap[data]) :
                  TableGet(soln[1], g)
                      = <<WeightedMean(heap[data],
                            SelectSeq([i \in 1..Len(heap[data]) |-> i],
                                      LAMBDA i : heap[data][i].study = g))>>
            /\ heap[data] = Scenario => soln = Some(ScenarioTable)
        /\ (last.op = "predict" /\ kind = "study" /\ soln = Some(ScenarioTable)
                /\ heap[data] = Scenario /\ last.arg # None) =>
            /\ last.status = "ok"
            /\ \A i \in 1..Len(heap[last.arg]) :
                  heap[last.arg][i].study = "C" => last.out[i] = <<5, 2>>

C7_Witness ==
    /\ cov_models = <<"intercept">>
    /\ kind = "study"
    /\ last.op = "predict"
    /\ soln = Some(ScenarioTable)
    /\ heap[data] = Scenario
    /\ last.arg # None
    /\ \E i \in 1..Len(heap[last.arg]) :
          heap[last.arg][i].study = "C" /\ last.out[i] = <<5, 2>>

\* C8: attach_data(None) changes nothing; attach_data(data) stores the data
\* and the design matrix built from it, in any state, and leaves soln as it was
C8_AttachFrame ==
    [][last'.op = "attach_data" =>
        /\ soln' = soln
        /\ heap' = heap
        /\ fit_status' = fit_status
        /\ IF last'.arg = None THEN UNCHANGED <<data, mat>>
           ELSE /\ data' = last'.arg
                /\ mat' = Some(DesignMat(kind, cov_models, heap[last'.arg]))]_vars

C8_Witness ==
    /\ last.op = "attach_data"
    /\ last.arg = "d2"
    /\ data = "d2"
    /\ fit_status = "ok"
    /\ kind = "study"
    /\ Keys(soln[1]) # StudySet(heap[data])

\* C9: after a successful StudyModel.fit_model the keys of the table are the
\* groups of the attached data and each group's vector is the solve_ls result
\* over the covariate rows, outcomes and standard errors of that group's
\* observations
C9_PerGroupFit ==
    (kind = "study" /\ last.op = "fit_model" /\ last.status = "ok") =>
        /\ Keys(soln[1]) = StudySet(heap[data])
        /\ \A g \in StudySet(heap[data]) :
              LET d == heap[data]
                  index == SelectSeq([i \in 1..Len(d) |-> i], LAMBDA i : d[i].study = g)
              IN  TableGet(soln[1], g)
                      = solve_ls(Take(GetCovs(d, cov_models), index),
                                 Take(Obs(d), index), Take(ObsSe(d), index)).val

\* C10: the stored design matrix is, row for row, the design matrix of the
\* attached observation set
C10_MatrixMatchesData ==
    data # None => mat = Some(DesignMat(kind, cov_models, heap[data]))

====
